---- MODULE Spec2Model ----
(***************************************************************************)
(* Push-to-hold recording core of pulse-desktop: the hotkey coordinator    *)
(* (IS_RECORDING, press / release handlers, background finalization), the  *)
(* native recorder (SCRecorder start / stop), the pausable filesystem      *)
(* watcher, the project timeline and the front-end listeners.              *)
(***************************************************************************)
EXTENDS Integers, Sequences, FiniteSets, TLC

\* ------------------------------------------------------------------ bounds
MaxHotkeyEvents == 3
MaxFaults == 1
MaxBacklog == 2
MaxPathN == 5
MaxPathRecs == 2
MaxPreInitRecs == 2
MaxConfigChanges == 2
\* The sample path: host-clock values and samples handed to the callbacks.
MaxClock == 3
MaxSamples == 3
\* The clips list: clips of the project, user edits, and the size of the undo
\* history (the parameter maxHistorySize of useUndoRedo, 50 when left out,
\* lowered here so that the cap is reached).
MaxClips == 2
MaxEdits == 3
maxHistorySize == 2
\* Reconcile: file names of the project directory and distinct file contents.
MaxDirNames == 2
MaxChecksums == 2

\* File 0 is an externally added clip (for example demo.mp4); file N >= 1 is
\* recording-N.mp4.
ExternalFile == 0
FileIds == 0..MaxHotkeyEvents
\* recording-1.mp4 .. recording-MaxPathN.mp4 of the path-selection specification.
PathIds == 1..MaxPathN

VARIABLES
    IS_RECORDING,     \* static AtomicBool of the hotkey handler
    enabled,          \* WatcherControl.enabled
    current_project,  \* AppState.current_project is Some(..)
    preInitState,     \* PreInitState
    capturer,         \* AppState.capturer slot: 1 holds a pre-initialized
                      \* capturer, 0 is empty (Option::is_some)
    preInitOps,       \* Pre-Init Manager: builds and teardowns in flight,
                      \* and whether an initialize waits for a teardown
    sessions,         \* every SCRecorder built so far
    recs,             \* every press accepted by the compare-and-set
    active,           \* the recording the next release stops, 0 when none
    files,            \* project directory: state of each file
    timeline,         \* timeline.json: number of entries per filename
    queue,            \* events emitted to the front end and not yet handled
    status,           \* RecordingState.status of useRecording
    fsPending,        \* an OS file event waits for the watcher thread
    nFaults,          \* failures of the OS frameworks and of the disk so far
    nHotkey,          \* hotkey callbacks so far
    lastKey,          \* the last hotkey callback, and whether it was dropped
    sampleState,      \* SCRecorderImpl of one session: flags, first-sample
                      \* times, and the samples appended to the writer inputs
    history,          \* HistoryState of useUndoRedo in the clips list
    clipsList,        \* the rest of the ClipsList component: its project, its
                      \* pending load effect, the last handler that ran
    timelineFile      \* timeline.json of the project

vars == <<IS_RECORDING, enabled, current_project, preInitState, capturer, preInitOps, sessions, recs, active, files, timeline, queue, status, fsPending,
          nFaults, nHotkey, lastKey, sampleState, history, clipsList,
          timelineFile>>

\* The sample path of one session and the clips list of the front end.
otherVars == <<sampleState, history, clipsList, timelineFile>>

\* Everything the coordinator, the recorder and the stores own.
coordVars == <<IS_RECORDING, enabled, current_project, preInitState, capturer, preInitOps,
               sessions, recs, active, files, timeline, queue, nFaults>>

\* Everything of the recording path and its user interface.
mainVars == <<coordVars, status, fsPending, nHotkey, lastKey>>

\* ------------------------------------------------------------ pure helpers

\* A swap that lets every press through (the handler without its guard).
PressAcceptedAlways(is_rec) == TRUE

\* Pressed: `if !IS_RECORDING.swap(true, SeqCst)`.
PressAccepted(is_rec) == ~is_rec

\* Released: `if IS_RECORDING.swap(false, SeqCst)`.
ReleaseAccepted(is_rec) == is_rec

\* An error path that leaves the flag of the watcher as it is (paused).
resumeForgotten == FALSE

\* A press handler that does not look for the project.
ProjectResolvedAlways(project) == TRUE

\* state.current_project holds Some(project_name).
ProjectResolved(project) == project

\* WatcherControl::pause / resume store false / true.
pause == FALSE
resume == TRUE

\* Watcher thread: `if !enabled.load() { continue; }` before emitting.
WatcherEmits(en) == en

\* -[SCRecorderImpl start]: `if (_isRecording) return -1`.
StartGuard(s) == ~s.isRecording

\* A stop that never reports "Not recording".
StopGuardAlways(s) == TRUE

\* -[SCRecorderImpl stop]: `if (!_isRecording) return -1`.
StopGuard(s) == s.isRecording

\* A stop that reports success whatever the completion handlers saw.
StopResultIgnored(captureError, writerFailed) == 0

\* -[SCRecorderImpl stop]: result is -1 when stopCapture reported an error or
\* the asset writer ended in AVAssetWriterStatusFailed, else 0.
StopResult(captureError, writerFailed) ==
    IF captureError \/ writerFailed THEN 0 - 1 ELSE 0

\* The value of _isRecording once the completion handler of
\* startCaptureWithCompletionHandler ran without error.
StartCompletionFlag == TRUE

RECURSIVE MaxNumber(_, _)
MaxNumber(fs, n) ==
    IF n = 0 THEN 0
    ELSE IF fs[n] # "absent" THEN n ELSE MaxNumber(fs, n - 1)

\* The largest file number the directory listing can hold.
Top(fs) == CHOOSE n \in DOMAIN fs : \A m \in DOMAIN fs : m <= n

\* get_next_recording_number of the encoding plan: max over recording-N.mp4,
\* plus one.
get_next_recording_number(fs) == MaxNumber(fs, Top(fs)) + 1

RECURSIVE FirstFree(_, _)
FirstFree(fs, n) ==
    IF n \in DOMAIN fs /\ fs[n] # "absent" THEN FirstFree(fs, n + 1) ELSE n

\* ScreenCapturer::get_next_output_path as built: n = 1; loop until
\* recording-n.mp4 does not exist.
get_next_output_path(fs) == FirstFree(fs, 1)

Ev(t, r) == [type |-> t, rec |-> r]

\* The webview falls at most MaxBacklog events behind: a thread that is about
\* to emit waits while that many events are unhandled.  Steps that emit
\* nothing are never held back.
CanEmit == Len(queue) < MaxBacklog

\* The listener before the rapid-recording fix: clip-saved set the status idle.
StatusOnClipSavedIdle(prev) == "idle"

\* The release handler before the rapid-recording fix: "saving" on release,
\* "idle" only from the background thread.
ReleaseStatusSaving == "saving"

\* Released: `events::emit_status(app, "idle")` right after the swap.
ReleaseStatus == "idle"

\* useRecording listeners: recording-status sets the status, recording-error
\* sets it to error, clip-saved leaves it alone.
StatusOnClipSaved(prev) == prev

\* A recording-error listener that only stores the message.
StatusOnErrorKept(prev) == prev

\* recording-error listener: `status: 'error'`.
StatusOnError(prev) == "error"

StatusOnEvent(prev, e) ==
    CASE e.type = "recording" -> "recording"
      [] e.type = "idle" -> "idle"
      [] e.type = "saving" -> "saving"
      [] e.type = "recording-error" -> StatusOnError(prev)
      [] e.type = "clip-saved" -> StatusOnClipSaved(prev)
      [] OTHER -> prev

\* reconcile_project_timeline: every file that no entry names becomes a new
\* entry; entries are never removed.
reconcile(tl, fs) ==
    [f \in FileIds |-> IF fs[f] # "absent" /\ tl[f] = 0 THEN 1 ELSE tl[f]]

\* Timeline Store append on recording completion: adds a new entry.
append_entry(tl, f) == [tl EXCEPT ![f] = @ + 1]

\* handleRefresh of ProjectPanel: reconcile when a project is current.
handleRefresh(tl, fs, project) == IF project THEN reconcile(tl, fs) ELSE tl

\* ------------------------------------------------- capturer and Pre-Init
\* Milliseconds of the start path: the threshold of the "SLOW START" line,
\* the 2-3 seconds of pre_initialize, the time of recorder.start().
SlowStartMs == 100
PreInitMinMs == 2000
PreInitMaxMs == 3000
StreamStartMs == 50
PreInitMs == {PreInitMinMs, PreInitMaxMs}

\* A slot that always looks full.
capturer_readyAlways(cap) == TRUE

\* Pressed: `let capturer_ready = { ... cap.is_some() }`.
capturer_ready(cap) == cap # 0

\* start_recording: `start.elapsed()` once recorder.start() returned; a
\* capturer that is not pre-initialized runs pre_initialize first.
start_elapsed(pre_initialized, initMs) ==
    IF pre_initialized THEN StreamStartMs ELSE initMs + StreamStartMs

\* A start that never reports its delay.
SlowStartLoggedNever(duration) == 0

\* `if duration.as_millis() > 100 { eprintln!("SLOW START: {:?}", duration) }`:
\* the delay the log line reports, 0 when no line is written.
SlowStartLogged(duration) == IF duration > SlowStartMs THEN duration ELSE 0

\* The manager with no operation in flight: builds and teardowns in flight,
\* the initialize that waits for a teardown, the generation of the capture
\* configuration (mic, device, region), the generation the build in flight
\* and the held capturer were made from, and the last generation that
\* invalidated a held capturer.
NoOps == [init |-> 0, shutdown |-> 0, queued |-> FALSE,
          cfg |-> 0, building |-> 0, held |-> 0, need |-> 0]

\* An initialize that builds whenever no capturer is held.
InitializeStartsAlways(st) == st # "Ready"

\* initialize builds a capturer only from NotInitialized: in Ready it is a
\* no-op, in Initializing it awaits the build in flight.
InitializeStarts(st) == st = "NotInitialized"

\* initialize during a teardown queues to run afterward.
InitializeQueues(st) == st = "ShuttingDown"

\* PreInitState after a call of initialize.
StateOnInitialize(st) == IF InitializeStarts(st) THEN "Initializing" ELSE st

\* Operations of the manager after a call of initialize.
OpsOnInitialize(st, ops) ==
    [ops EXCEPT !.init = IF InitializeStarts(st) THEN @ + 1 ELSE @,
                !.building = IF InitializeStarts(st) THEN ops.cfg ELSE @,
                !.queued = IF InitializeQueues(st) THEN TRUE ELSE @]

\* A configuration change that leaves the capturer it finds in the slot.
SlotOnConfigChangeKept(cap) == cap

\* The slot after a configuration change met a held capturer: the capturer is
\* moved out to be torn down.
SlotOnConfigChange(cap) == 0

\* A status chip that lets every click through.
ToggleAllowedAlways(uiStatus, st) == TRUE

\* handleClick of the status chip: no toggle while a recording is shown or
\* the manager is in a transient state.
ToggleAllowed(uiStatus, st) ==
    /\ uiStatus = "idle"
    /\ st \notin {"Initializing", "ShuttingDown"}

\* SCRecorderImpl as initWithConfig leaves it, seen from the sample path:
\* phase is where start and stop stand, clock the host clock the sample
\* timestamps are taken from, out the samples appended to the writer inputs.
NoSamples ==
    [phase |-> "idle", isRecording |-> FALSE,
     hasFirstFrame |-> FALSE, firstFrameTime |-> 0,
     hasFirstAudio |-> FALSE, firstAudioTime |-> 0,
     clock |-> 0, nSamples |-> 0, flight |-> {}, out |-> << >>]

\* useUndoRedo(initialState) with the initial state [] of the clips list.
NoHistory == [past |-> << >>, present |-> << >>, future |-> << >>]

\* ClipsList when it mounts: ProjectPanel hands it currentProject, null until a
\* project is selected; the load effect has not run yet.
\* timeline is what get_project_timeline returned last to saveTimeline.
NothingRead == [read |-> FALSE, entries |-> << >>, complete |-> TRUE]
MountedClipsList ==
    [projectName |-> FALSE, effect |-> TRUE, last |-> "mount", edits |-> 0,
     timeline |-> NothingRead]

\* timeline.json of a project without clips: its entries, whether the file
\* holds a whole document, the temporary file next to it, and who is writing.
EmptyTimelineFile ==
    [entries |-> << >>, complete |-> TRUE, tmp |-> << >>, writers |-> {}]

\* ------------------------------------------------------------------- init
Init ==
    /\ IS_RECORDING = FALSE
    /\ enabled = TRUE
    /\ current_project = FALSE
    /\ preInitState = "NotInitialized"
    /\ capturer = 0
    /\ preInitOps = NoOps
    /\ sessions = << >>
    /\ recs = << >>
    /\ active = 0
    /\ files = [f \in FileIds |-> "absent"]
    /\ timeline = [f \in FileIds |-> 0]
    /\ queue = << >>
    /\ status = "idle"
    /\ fsPending = FALSE
    /\ nFaults = 0
    /\ nHotkey = 0
    /\ lastKey = "none"
    /\ sampleState = NoSamples
    /\ history = NoHistory
    /\ clipsList = MountedClipsList
    /\ timelineFile = EmptyTimelineFile

\* A session right after pre_initialize: stream built, writer not started.
NewSession == [st |-> "PreInitialized", isRecording |-> FALSE]

\* A session built on demand by the press handler: pre_initialize has not run.
OnDemandSession == [st |-> "Created", isRecording |-> FALSE]

\* A recording: its session, its output file, the position of its start
\* thread and of its finalization thread, the events emitted for it, whether
\* its session was built on demand, and the delay its start logged.
NewRec(s, p, pc, es) ==
    [session |-> s, path |-> p, startPc |-> pc, stopPc |-> "none", evs |-> es,
     slow |-> FALSE, logged |-> 0]

Emitted(rec, t) == [rec EXCEPT !.evs = Append(@, t)]

\* --------------------------------------------------------- hotkey: Pressed
\* Steps 1-6 of the press handler run in the hotkey callback; step 7
\* (session.start) runs on the thread the callback spawns.
PressDropped ==
    /\ ~PressAccepted(IS_RECORDING)
    /\ lastKey' = "press-dropped"
    /\ UNCHANGED <<coordVars, status, fsPending, otherVars>>

PressNoProject ==
    /\ PressAccepted(IS_RECORDING)
    /\ lastKey' = "press"
    /\ ~ProjectResolved(current_project)
    /\ CanEmit
    /\ queue' = queue \o <<Ev("recording", Len(recs) + 1),
                           Ev("project-required", Len(recs) + 1)>>
    /\ enabled' = pause
    /\ IS_RECORDING' = FALSE
    /\ recs' = Append(recs, NewRec(0, 0, "dropped",
                                   <<"recording", "project-required">>))
    /\ UNCHANGED <<current_project, preInitState, capturer, preInitOps, sessions,
                   active, files, timeline, status, fsPending, nFaults, otherVars>>

PressStart ==
    /\ PressAccepted(IS_RECORDING)
    /\ lastKey' = "press"
    /\ ProjectResolved(current_project)
    /\ CanEmit
    /\ IS_RECORDING' = TRUE
    /\ queue' = Append(queue, Ev("recording", Len(recs) + 1))
    /\ enabled' = pause
    /\ sessions' = Append(sessions, IF capturer_ready(capturer)
                                    THEN NewSession        \* fast path: taken
                                    ELSE OnDemandSession)  \* slow path: built
    /\ recs' = Append(recs, NewRec(Len(sessions) + 1,
                           get_next_output_path(files), "spawned",
                           <<"recording">>))
    /\ capturer' = 0
    /\ preInitState' = IF capturer_ready(capturer) THEN "NotInitialized"
                       ELSE preInitState
    /\ UNCHANGED preInitOps
    /\ active' = Len(recs) + 1
    /\ UNCHANGED <<current_project, files, timeline, status, fsPending,
                   nFaults, otherVars>>

Press ==
    /\ nHotkey < MaxHotkeyEvents
    /\ nHotkey' = nHotkey + 1
    /\ (PressDropped \/ PressNoProject \/ PressStart)

\* On failure of session.start: reverse steps 3-5 and emit Error.
StartFailure(r) ==
    /\ CanEmit
    /\ enabled' = resume
    /\ queue' = Append(queue, Ev("recording-error", r))
    /\ recs' = [recs EXCEPT ![r] = Emitted([@ EXCEPT !.startPc = "failed"],
                                           "recording-error")]

\* -[SCRecorderImpl start] up to the call of startCaptureWithCompletionHandler.
StartWriting(r) ==
    /\ recs[r].startPc = "spawned"
    /\ LET s == recs[r].session IN
       \/ \* startWriting succeeded: the output file exists from here on
          /\ StartGuard(sessions[s])
          /\ sessions' = [sessions EXCEPT ![s].st = "Starting"]
          /\ files' = [files EXCEPT ![recs[r].path] = "partial"]
          /\ recs' = [recs EXCEPT ![r].startPc = "inflight"]
          /\ UNCHANGED <<enabled, queue, nFaults>>
       \/ \* "Already recording", or startWriting failed
          /\ StartGuard(sessions[s]) => nFaults < MaxFaults
          /\ nFaults' = IF StartGuard(sessions[s]) THEN nFaults + 1 ELSE nFaults
          /\ sessions' = [sessions EXCEPT ![s].st = "StartFailed"]
          /\ StartFailure(r)
          /\ UNCHANGED files
    /\ UNCHANGED <<IS_RECORDING, current_project, preInitState, capturer, preInitOps, active, timeline, status, fsPending, nHotkey, lastKey, otherVars>>

\* The completion handler of startCaptureWithCompletionHandler.
StartCompletion(r) ==
    /\ recs[r].startPc = "inflight"
    /\ LET s == recs[r].session IN
       \/ /\ sessions' = [sessions EXCEPT ![s].isRecording = StartCompletionFlag,
                                          ![s].st = "Recording"]
          /\ recs' = [recs EXCEPT ![r].startPc = "ok"]
          /\ UNCHANGED <<enabled, queue, nFaults>>
       \/ /\ nFaults < MaxFaults
          /\ nFaults' = nFaults + 1
          /\ sessions' = [sessions EXCEPT ![s].st = "StartFailed"]
          /\ StartFailure(r)
    /\ UNCHANGED <<IS_RECORDING, current_project, preInitState, capturer, preInitOps, active, files, timeline, status, fsPending, nHotkey,
                   lastKey, otherVars>>

\* -------------------------------------------------------- hotkey: Released
ReleaseDropped ==
    /\ ~ReleaseAccepted(IS_RECORDING)
    /\ lastKey' = "release-dropped"
    /\ UNCHANGED <<coordVars, status, fsPending, otherVars>>

\* swap(false), emit "idle" at once, hand the recording to a background thread.
ReleaseStop ==
    /\ ReleaseAccepted(IS_RECORDING)
    /\ lastKey' = "release"
    /\ CanEmit
    /\ IS_RECORDING' = FALSE
    /\ queue' = Append(queue, Ev(ReleaseStatus, active))
    /\ recs' = [recs EXCEPT ![active] = Emitted([@ EXCEPT !.stopPc = "spawned"],
                                                ReleaseStatus)]
    /\ active' = 0
    /\ UNCHANGED <<enabled, current_project, preInitState, capturer, preInitOps, sessions, files, timeline, status, fsPending, nFaults, otherVars>>

Release ==
    /\ nHotkey < MaxHotkeyEvents
    /\ nHotkey' = nHotkey + 1
    /\ (ReleaseDropped \/ ReleaseStop)

\* Error path of the background finalization: resume the watcher, emit Error.
FinalizeError(r) ==
    /\ CanEmit
    /\ enabled' = resume
    /\ queue' = Append(queue, Ev("recording-error", r))
    /\ recs' = [recs EXCEPT ![r] = Emitted([@ EXCEPT !.stopPc = "failed"],
                                           "recording-error")]

\* -[SCRecorderImpl stop] up to the call of stopCaptureWithCompletionHandler.
StopCall(r) ==
    /\ recs[r].stopPc = "spawned"
    /\ LET s == recs[r].session IN
       IF StopGuard(sessions[s])
       THEN /\ sessions' = [sessions EXCEPT ![s].st = "Stopping"]
            /\ recs' = [recs EXCEPT ![r].stopPc = "stopping"]
            /\ UNCHANGED <<enabled, queue>>
       ELSE \* "Not recording": stop returns -1
            /\ FinalizeError(r)
            /\ UNCHANGED sessions
    /\ UNCHANGED <<IS_RECORDING, current_project, preInitState, capturer, preInitOps, active, files, timeline, status, fsPending, nFaults,
                   nHotkey, lastKey, otherVars>>

\* Completion handlers of stop: stopCapture may report an error, the inputs
\* are marked finished, finishWriting may leave the writer failed (the file
\* stays partial), isRecording = NO, stop returns result.
StopCompletion(r) ==
    /\ recs[r].stopPc = "stopping"
    /\ LET s == recs[r].session IN
       \E captureError, writerFailed \in BOOLEAN :
          LET n == (IF captureError THEN 1 ELSE 0) + (IF writerFailed THEN 1 ELSE 0)
          IN
          /\ nFaults + n <= MaxFaults
          /\ nFaults' = nFaults + n
          /\ sessions' = [sessions EXCEPT
                 ![s].isRecording = FALSE,
                 ![s].st = IF writerFailed THEN "WriterFailed" ELSE "Finalized"]
          /\ files' = IF writerFailed THEN files
                      ELSE [files EXCEPT ![recs[r].path] = "complete"]
          /\ IF StopResult(captureError, writerFailed) = 0
             THEN /\ recs' = [recs EXCEPT ![r].stopPc = "stopped"]
                  /\ UNCHANGED <<enabled, queue>>
             ELSE FinalizeError(r)
    /\ UNCHANGED <<IS_RECORDING, current_project, preInitState, capturer, preInitOps, active,
                   timeline, status, fsPending, nHotkey, lastKey, otherVars>>

\* Write the timeline entry, then emit clip-saved.
SaveClip(r) ==
    /\ recs[r].stopPc = "stopped"
    /\ \/ /\ CanEmit
          /\ timeline' = append_entry(timeline, recs[r].path)
          /\ queue' = Append(queue, Ev("clip-saved", r))
          /\ recs' = [recs EXCEPT ![r] = Emitted([@ EXCEPT !.stopPc = "saved"],
                                                 "clip-saved")]
          /\ UNCHANGED <<enabled, nFaults>>
       \/ \* the timeline write failed
          /\ nFaults < MaxFaults
          /\ nFaults' = nFaults + 1
          /\ FinalizeError(r)
          /\ UNCHANGED timeline
    /\ UNCHANGED <<IS_RECORDING, current_project, preInitState, capturer, preInitOps, sessions, active, files, status, fsPending, nHotkey,
                   lastKey, otherVars>>

\* After clip-saved was emitted: resume the watcher and kick off a fresh
\* pre-initialization.
ResumeAfterSave(r) ==
    /\ recs[r].stopPc = "saved"
    /\ enabled' = resume
    /\ recs' = [recs EXCEPT ![r].stopPc = "done"]
    /\ preInitState' = StateOnInitialize(preInitState)
    /\ preInitOps' = OpsOnInitialize(preInitState, preInitOps)
    /\ UNCHANGED <<IS_RECORDING, current_project, capturer, sessions,
                   active, files, timeline, queue, status, fsPending, nFaults, nHotkey, lastKey, otherVars>>

\* ------------------------------------------------------- Pre-Init Manager
\* set_current_project: set the project, then pre-initialize a capturer.
SetCurrentProject ==
    /\ ~current_project
    /\ current_project' = TRUE
    /\ preInitState' = StateOnInitialize(preInitState)
    /\ preInitOps' = OpsOnInitialize(preInitState, preInitOps)
    /\ UNCHANGED <<IS_RECORDING, enabled, capturer, sessions, recs, active,
                   files, timeline, queue, status, fsPending, nFaults,
                   nHotkey, lastKey, otherVars>>

\* toggle_pre_init when no capturer is held (needs a project for the output
\* path): the status chip lets the click through only outside a transition.
Initialize ==
    /\ current_project
    /\ ToggleAllowed(status, preInitState)
    /\ preInitState # "Ready"
    /\ preInitState' = "Initializing"
    /\ preInitOps' = [preInitOps EXCEPT !.init = @ + 1,
                                        !.building = preInitOps.cfg]
    /\ UNCHANGED <<IS_RECORDING, enabled, current_project, capturer, sessions,
                   recs, active, files, timeline, queue, status, fsPending,
                   nFaults, nHotkey, lastKey, otherVars>>

\* pre_initialize returned: the capturer is stored in the slot, or the error is
\* surfaced and the manager is NotInitialized again.
InitComplete ==
    /\ preInitOps.init > 0
    /\ \/ /\ capturer' = 1
          /\ preInitState' = "Ready"
          /\ preInitOps' = [preInitOps EXCEPT !.init = @ - 1,
                                              !.held = preInitOps.building]
          /\ UNCHANGED nFaults
       \/ /\ nFaults < MaxFaults
          /\ nFaults' = nFaults + 1
          /\ preInitState' = "NotInitialized"
          /\ preInitOps' = [preInitOps EXCEPT !.init = @ - 1]
          /\ UNCHANGED capturer
    /\ UNCHANGED <<IS_RECORDING, enabled, current_project, sessions, recs,
                   active, files, timeline, queue, status, fsPending, nHotkey,
                   lastKey, otherVars>>

\* Idle timeout, or toggle_pre_init in Ready: the capturer is moved out of
\* the slot and torn down.
Shutdown ==
    /\ preInitState = "Ready"
    /\ preInitState' = "ShuttingDown"
    /\ capturer' = 0
    /\ preInitOps' = [preInitOps EXCEPT !.shutdown = @ + 1]
    /\ UNCHANGED <<IS_RECORDING, enabled, current_project, sessions, recs, active, files, timeline, queue, status,
                   fsPending, nFaults, nHotkey, lastKey, otherVars>>

\* set_mic_enabled, set_audio_device, set_capture_region: a held capturer is
\* torn down and rebuilt, otherwise the change only asks for a capturer.
ConfigChange ==
    /\ current_project
    /\ preInitOps.cfg < MaxConfigChanges
    /\ LET ops == [preInitOps EXCEPT !.cfg = @ + 1] IN
       IF preInitState = "Ready"
       THEN /\ preInitState' = "ShuttingDown"
            /\ capturer' = SlotOnConfigChange(capturer)
            /\ preInitOps' = [ops EXCEPT !.shutdown = @ + 1,
                                         !.queued = TRUE,
                                         !.need = ops.cfg]
       ELSE /\ preInitState' = StateOnInitialize(preInitState)
            /\ preInitOps' = OpsOnInitialize(preInitState, ops)
            /\ UNCHANGED capturer
    /\ UNCHANGED <<IS_RECORDING, enabled, current_project, sessions, recs,
                   active, files, timeline, queue, status, fsPending,
                   nFaults, nHotkey, lastKey, otherVars>>

ShutdownComplete ==
    /\ preInitOps.shutdown > 0
    /\ preInitState' = "NotInitialized"
    /\ preInitOps' = [preInitOps EXCEPT !.shutdown = @ - 1]
    /\ UNCHANGED <<IS_RECORDING, enabled, current_project, capturer,
                   sessions, recs, active, files, timeline, queue, status,
                   fsPending, nFaults, nHotkey, lastKey, otherVars>>

\* The initialize that was queued during a teardown runs once it is over.
QueuedInitialize ==
    /\ preInitOps.queued
    /\ preInitState # "ShuttingDown"
    /\ preInitState' = StateOnInitialize(preInitState)
    /\ preInitOps' = [OpsOnInitialize(preInitState, preInitOps)
                      EXCEPT !.queued = FALSE]
    /\ UNCHANGED <<IS_RECORDING, enabled, current_project, capturer,
                   sessions, recs, active, files, timeline, queue, status,
                   fsPending, nFaults, nHotkey, lastKey, otherVars>>

\* ----------------------------------------------------- filesystem watcher
\* A session whose writer has the output file open.
Writing(s) == sessions[s].st \in {"Starting", "Recording", "Stopping"}

\* The OS reports a change of a file a recording is writing.
RecordingWrite ==
    /\ \E s \in 1..Len(sessions) : Writing(s)
    /\ ~fsPending
    /\ fsPending' = TRUE
    /\ UNCHANGED <<coordVars, status, nHotkey, lastKey, otherVars>>

\* Somebody copies a finished clip into the project directory.
ExternalWrite ==
    /\ current_project
    /\ files[ExternalFile] = "absent"
    /\ files' = [files EXCEPT ![ExternalFile] = "complete"]
    /\ fsPending' = TRUE
    /\ UNCHANGED <<IS_RECORDING, enabled, current_project, preInitState, capturer, preInitOps,
                   sessions, recs, active, timeline, queue, status,
                   nFaults, nHotkey, lastKey, otherVars>>

\* The watcher thread takes the event: emitted only while enabled.
WatcherThread ==
    /\ fsPending
    /\ WatcherEmits(enabled) => CanEmit
    /\ fsPending' = FALSE
    /\ queue' = IF WatcherEmits(enabled)
                THEN Append(queue, Ev("filesystem-changed", 0))
                ELSE queue
    /\ UNCHANGED <<IS_RECORDING, enabled, current_project, preInitState, capturer, preInitOps,
                   sessions, recs, active, files, timeline, status,
                   nFaults, nHotkey, lastKey, otherVars>>

\* -------------------------------------------------------------- front end
\* The webview handles the next event: useRecording updates the status,
\* ProjectPanel refreshes on clip-saved and filesystem-changed.
UIDeliver ==
    /\ queue # << >>
    /\ queue' = Tail(queue)
    /\ LET e == Head(queue) IN
       /\ status' = StatusOnEvent(status, e)
       /\ timeline' = IF e.type \in {"clip-saved", "filesystem-changed"}
                      THEN handleRefresh(timeline, files, current_project)
                      ELSE timeline
    /\ UNCHANGED <<IS_RECORDING, enabled, current_project, preInitState, capturer, preInitOps,
                   sessions, recs, active, files, fsPending, nFaults, nHotkey, lastKey, otherVars>>

\* ---------------------------------------------------------- specification
\* Everything but the front end: the hotkey callbacks, the threads they
\* spawn, the Pre-Init Manager, the disk and the watcher thread.
Backend ==
    \/ Press
    \/ Release
    \/ \E r \in 1..Len(recs) : StartWriting(r)
    \/ \E r \in 1..Len(recs) : StartCompletion(r)
    \/ \E r \in 1..Len(recs) : StopCall(r)
    \/ \E r \in 1..Len(recs) : StopCompletion(r)
    \/ \E r \in 1..Len(recs) : SaveClip(r)
    \/ \E r \in 1..Len(recs) : ResumeAfterSave(r)
    \/ SetCurrentProject
    \/ Initialize
    \/ InitComplete
    \/ Shutdown
    \/ ShutdownComplete
    \/ QueuedInitialize
    \/ RecordingWrite
    \/ ExternalWrite
    \/ WatcherThread

Next == Backend \/ UIDeliver

Spec == Init /\ [][Next]_vars

\* ------------------------------------------- output path selection alone
\* Recordings made one after the other in a directory whose recording-N.mp4
\* files the user may also delete: the directory starts with any content, each
\* recording resolves its path and leaves its file behind.
InitPath ==
    /\ IS_RECORDING = FALSE
    /\ enabled = TRUE
    /\ current_project = TRUE
    /\ preInitState = "NotInitialized"
    /\ capturer = 0
    /\ preInitOps = NoOps
    /\ sessions = << >>
    /\ recs = << >>
    /\ active = 0
    /\ files \in [PathIds -> {"absent", "complete"}]
    /\ timeline = [f \in PathIds |-> 0]
    /\ queue = << >>
    /\ status = "idle"
    /\ fsPending = FALSE
    /\ nFaults = 0
    /\ nHotkey = 0
    /\ lastKey = "none"
    /\ sampleState = NoSamples
    /\ history = NoHistory
    /\ clipsList = MountedClipsList
    /\ timelineFile = EmptyTimelineFile

\* One whole recording: the path is resolved, the file is written.
RecordPath ==
    /\ Len(recs) < MaxPathRecs
    /\ LET p == get_next_output_path(files) IN
       /\ p \in PathIds
       /\ recs' = Append(recs, [NewRec(0, p, "ok", << >>) EXCEPT !.stopPc = "done"])
       /\ files' = [files EXCEPT ![p] = "complete"]
    /\ UNCHANGED <<IS_RECORDING, enabled, current_project, preInitState, capturer, preInitOps,
                   sessions, active, timeline, queue, status, fsPending,
                   nFaults, nHotkey, lastKey, otherVars>>

\* The user deletes recording-n.mp4.
DeletePath(n) ==
    /\ files[n] # "absent"
    /\ files' = [files EXCEPT ![n] = "absent"]
    /\ UNCHANGED <<IS_RECORDING, enabled, current_project, preInitState, capturer, preInitOps,
                   sessions, recs, active, timeline, queue, status, fsPending,
                   nFaults, nHotkey, lastKey, otherVars>>

NextPath ==
    \/ RecordPath
    \/ \E n \in PathIds : DeletePath(n)

SpecPath == InitPath /\ [][NextPath]_vars

\* ------------------------------------- specification: Pre-Init and start path
\* The Pre-Init Manager under every caller, with the recording reduced to the
\* two hotkey handlers run to completion.

\* Pressed with the start it awaits: the capturer is taken out of the slot or
\* built on demand, start_recording runs, the delay is measured and logged.
PressedStart ==
    /\ PressAccepted(IS_RECORDING)
    /\ ProjectResolved(current_project)
    /\ Len(recs) < MaxPreInitRecs
    /\ IS_RECORDING' = TRUE
    /\ enabled' = pause
    /\ LET s == IF capturer_ready(capturer) THEN NewSession
                ELSE OnDemandSession
           p == get_next_output_path(files)
       IN /\ sessions' = Append(sessions, [s EXCEPT !.st = "Recording",
                                    !.isRecording = StartCompletionFlag])
          /\ \E initMs \in PreInitMs :
               recs' = Append(recs,
                   [NewRec(Len(sessions) + 1, p, "ok", <<"recording">>)
                    EXCEPT !.slow = (s.st = "Created"),
                           !.logged = SlowStartLogged(
                               start_elapsed(s.st = "PreInitialized", initMs))])
          /\ files' = [files EXCEPT ![p] = "partial"]
    /\ capturer' = 0
    /\ preInitState' = IF capturer_ready(capturer) THEN "NotInitialized"
                       ELSE preInitState
    /\ active' = Len(recs) + 1
    /\ UNCHANGED <<current_project, preInitOps, timeline, queue, status,
                   fsPending, nFaults, nHotkey, lastKey, otherVars>>

\* Released with its finalization: stop, timeline entry, watcher resumed, a
\* fresh initialize.
ReleasedSave ==
    /\ ReleaseAccepted(IS_RECORDING)
    /\ IS_RECORDING' = FALSE
    /\ sessions' = [sessions EXCEPT ![recs[active].session] =
                       [st |-> "Finalized", isRecording |-> FALSE]]
    /\ files' = [files EXCEPT ![recs[active].path] = "complete"]
    /\ timeline' = append_entry(timeline, recs[active].path)
    /\ recs' = [recs EXCEPT ![active] =
                   [@ EXCEPT !.stopPc = "done",
                             !.evs = @ \o <<"idle", "clip-saved">>]]
    /\ enabled' = resume
    /\ preInitState' = StateOnInitialize(preInitState)
    /\ preInitOps' = OpsOnInitialize(preInitState, preInitOps)
    /\ UNCHANGED <<current_project, capturer, active, queue, status,
                   fsPending, nFaults, nHotkey, lastKey, otherVars>>

NextPreInit ==
    \/ SetCurrentProject
    \/ Initialize
    \/ InitComplete
    \/ Shutdown
    \/ ConfigChange
    \/ ShutdownComplete
    \/ QueuedInitialize
    \/ PressedStart
    \/ ReleasedSave

SpecPreInit == Init /\ [][NextPreInit]_vars

\* A teardown, a build and a queued initialize are tasks that run to their end
\* once started.
FairSpecPreInit ==
    /\ SpecPreInit
    /\ WF_vars(ShutdownComplete)
    /\ WF_vars(QueuedInitialize)
    /\ WF_vars(InitComplete)

\* ------------------------------------------------ the sample path alone
\* One SCRecorderImpl from start to the end of stop, with the two delegate
\* callbacks that rebase the samples and append them to the writer inputs.
\* Sample timestamps are readings of the host clock.

\* CMTimeSubtract(originalTime, first).
adjustedTime(originalTime, first) == originalTime - first

\* readyForMoreMediaData of a writer input: never again once the input was
\* marked as finished.
ReadyValues(phase) == IF phase \in {"finishing", "done"} THEN {FALSE} ELSE BOOLEAN

\* -[start] up to the call of startCaptureWithCompletionHandler: the writer
\* is started and the first-sample tracking reset.
SampleStart ==
    /\ sampleState.phase = "idle"
    /\ ~sampleState.isRecording
    /\ sampleState' = [sampleState EXCEPT !.phase = "starting",
                                          !.hasFirstFrame = FALSE,
                                          !.firstFrameTime = 0,
                                          !.hasFirstAudio = FALSE,
                                          !.firstAudioTime = 0]
    /\ UNCHANGED <<mainVars, history, clipsList, timelineFile>>

\* The completion handler of startCapture: isRecording is set here, or the
\* start has failed.
SampleStartCompletion ==
    /\ sampleState.phase = "starting"
    /\ \E error \in BOOLEAN :
          sampleState' = IF error
                         THEN [sampleState EXCEPT !.phase = "failed"]
                         ELSE [sampleState EXCEPT !.phase = "recording",
                                                  !.isRecording = TRUE]
    /\ UNCHANGED <<mainVars, history, clipsList, timelineFile>>

\* -[stop] up to finishWriting: the completion handler of stopCapture marks
\* both inputs as finished.
SampleStopCompletion ==
    /\ sampleState.phase = "recording"
    /\ sampleState.isRecording
    /\ sampleState' = [sampleState EXCEPT !.phase = "finishing"]
    /\ UNCHANGED <<mainVars, history, clipsList, timelineFile>>

\* The completion handler of finishWriting clears isRecording.
SampleFinishCompletion ==
    /\ sampleState.phase = "finishing"
    /\ sampleState' = [sampleState EXCEPT !.phase = "done",
                                          !.isRecording = FALSE]
    /\ UNCHANGED <<mainVars, history, clipsList, timelineFile>>

\* The host clock advances.
HostClockTick ==
    /\ sampleState.clock < MaxClock
    /\ sampleState' = [sampleState EXCEPT !.clock = @ + 1]
    /\ UNCHANGED <<mainVars, history, clipsList, timelineFile>>

\* captureOutput:didOutputSampleBuffer:fromConnection: the audio callback up
\* to the call of appendSampleBuffer. The audio session runs from pre-init
\* until stop, and delivers on a serial queue: one callback at a time.
captureOutput ==
    /\ sampleState.phase # "done"
    /\ sampleState.nSamples < MaxSamples
    /\ \A s \in sampleState.flight : s.track # "audio"
    /\ \E ready \in ReadyValues(sampleState.phase), copyOk \in BOOLEAN :
          LET originalTime == sampleState.clock
              first == IF sampleState.hasFirstAudio
                       THEN sampleState.firstAudioTime ELSE originalTime
              sample == [track |-> "audio", native |-> originalTime,
                         ts |-> adjustedTime(originalTime, first)]
          IN  sampleState' =
                IF ~sampleState.isRecording \/ ~ready
                THEN [sampleState EXCEPT !.nSamples = @ + 1]
                ELSE [sampleState EXCEPT
                        !.nSamples = @ + 1,
                        !.hasFirstAudio = TRUE,
                        !.firstAudioTime = first,
                        !.flight = IF copyOk THEN @ \cup {sample} ELSE @]
    /\ UNCHANGED <<mainVars, history, clipsList, timelineFile>>

\* stream:didOutputSampleBuffer:ofType: the video callback, for a sample of
\* type screen, up to the call of appendSampleBuffer. The stream delivers
\* from startCapture until stopCapture.
stream_didOutputSampleBuffer ==
    /\ sampleState.phase \in {"starting", "recording"}
    /\ sampleState.nSamples < MaxSamples
    /\ \A s \in sampleState.flight : s.track # "video"
    /\ \E ready \in ReadyValues(sampleState.phase), copyOk \in BOOLEAN :
          LET originalTime == sampleState.clock
              first == IF sampleState.hasFirstFrame
                       THEN sampleState.firstFrameTime ELSE originalTime
              sample == [track |-> "video", native |-> originalTime,
                         ts |-> adjustedTime(originalTime, first)]
          IN  sampleState' =
                IF ~sampleState.isRecording \/ ~ready
                THEN [sampleState EXCEPT !.nSamples = @ + 1]
                ELSE [sampleState EXCEPT
                        !.nSamples = @ + 1,
                        !.hasFirstFrame = TRUE,
                        !.firstFrameTime = first,
                        !.flight = IF copyOk THEN @ \cup {sample} ELSE @]
    /\ UNCHANGED <<mainVars, history, clipsList, timelineFile>>

\* The end of either callback: the rebased copy is appended to the writer
\* input of its track. The callbacks run on queues of their own and take no
\* lock, so start, stop and their completion handlers run between the test
\* of readyForMoreMediaData and this call.
appendSampleBuffer ==
    /\ \E sample \in sampleState.flight :
          sampleState' = [sampleState EXCEPT !.flight = @ \ {sample},
                                            !.out = Append(@, sample)]
    /\ UNCHANGED <<mainVars, history, clipsList, timelineFile>>

NextSamples ==
    \/ SampleStart
    \/ SampleStartCompletion
    \/ SampleStopCompletion
    \/ SampleFinishCompletion
    \/ HostClockTick
    \/ captureOutput
    \/ stream_didOutputSampleBuffer
    \/ appendSampleBuffer

SpecSamples == Init /\ [][NextSamples]_vars

\* ------------------------------------------------- the clips list alone
\* The ClipsList component with its undo history, and timeline.json, which
\* the component reads with get_project_timeline and writes with
\* save_project_timeline and to which the coordinator appends.

\* The label a user types into the label input.
EditLabels == {"take"}

\* A TimelineEntry as the coordinator appends it: recordedAt grows with id.
NewEntry(n) == [id |-> n, label |-> "", deleted |-> FALSE]

\* ---- useUndoRedo
\* A setState that leaves the past as it is.
PushPastSkipped(past, present) == past
\* [...prev.past, prev.present]
PushPast(past, present) == Append(past, present)

\* A history that is never trimmed.
TrimPastNever(newPast) == newPast
\* if (newPast.length > maxHistorySize) newPast.shift()
TrimPast(newPast) ==
    IF Len(newPast) > maxHistorySize THEN Tail(newPast) ELSE newPast

\* A setState that makes a history entry of every update.
setStateCheckpointAlways(h, newState, checkpoint) ==
    [past |-> TrimPast(PushPast(h.past, h.present)),
     present |-> newState,
     future |-> << >>]

\* setState(newState, checkpoint)
setState(h, newState, checkpoint) ==
    IF ~checkpoint
    THEN [h EXCEPT !.present = newState]
    ELSE [past |-> TrimPast(PushPast(h.past, h.present)),
          present |-> newState,
          future |-> << >>]

canUndo(h) == Len(h.past) > 0
canRedo(h) == Len(h.future) > 0

\* An undo that forgets the state it leaves.
FutureOnUndoDropped(present, future) == future
\* [prev.present, ...prev.future]
FutureOnUndo(present, future) == <<present>> \o future

undo(h) ==
    IF Len(h.past) = 0 THEN h
    ELSE [past |-> SubSeq(h.past, 1, Len(h.past) - 1),
          present |-> h.past[Len(h.past)],
          future |-> FutureOnUndo(h.present, h.future)]

redo(h) ==
    IF Len(h.future) = 0 THEN h
    ELSE [past |-> Append(h.past, h.present),
          present |-> h.future[1],
          future |-> Tail(h.future)]

\* ---- ClipsList
NotDeleted(c) == ~c.deleted
\* clips.filter(c => !c.deleted)
visibleClips(clips) == SelectSeq(clips, NotDeleted)

\* findIndex, counted from 1; 0 when the clip is not in the list.
IndexOf(clips, clipId) ==
    IF \E i \in 1..Len(clips) : clips[i].id = clipId
    THEN CHOOSE i \in 1..Len(clips) : clips[i].id = clipId
    ELSE 0

\* [...activeClips].sort(newest recordedAt first)
RECURSIVE SortNewestFirst(_)
SortNewestFirst(s) ==
    IF Len(s) = 0 THEN << >>
    ELSE LET rest == SortNewestFirst(Tail(s))
             older == {i \in 1..Len(rest) : rest[i].id < Head(s).id}
             at == IF older = {} THEN Len(rest) + 1
                   ELSE CHOOSE i \in older : \A j \in older : i <= j
         IN  SubSeq(rest, 1, at - 1) \o <<Head(s)>> \o SubSeq(rest, at, Len(rest))

\* What loadClips keeps of the entries it reads.
LoadedClips(entries) == SortNewestFirst(visibleClips(entries))

\* moveClip: the clip changes place with its neighbour in the full list.
MovedClips(clips, clipId, direction) ==
    LET clipIndex == IndexOf(clips, clipId)
        newIndex == IF direction = "up" THEN clipIndex - 1 ELSE clipIndex + 1
    IN  IF clipIndex = 0 \/ newIndex < 1 \/ newIndex > Len(clips) THEN clips
        ELSE [i \in 1..Len(clips) |->
                IF i = clipIndex THEN clips[newIndex]
                ELSE IF i = newIndex THEN clips[clipIndex]
                ELSE clips[i]]

\* handleMouseUp: the dragged clip is taken out and put in front of the
\* dropPos-th visible clip of the rest (dropPos counted from 0), or at the end.
DroppedClips(clips, draggedId, dropPos) ==
    LET draggedClip == clips[IndexOf(clips, draggedId)]
        Others(c) == c.id # draggedId
        withoutDragged == SelectSeq(clips, Others)
        visibleWithoutDragged == visibleClips(withoutDragged)
        targetVisibleIndex ==
            IF dropPos < Len(visibleWithoutDragged)
            THEN dropPos ELSE Len(visibleWithoutDragged)
        found == {i \in 1..Len(withoutDragged) :
                    /\ ~withoutDragged[i].deleted
                    /\ Cardinality({j \in 1..(i - 1) : ~withoutDragged[j].deleted})
                         = targetVisibleIndex}
        insertIndex == IF found = {} THEN Len(withoutDragged) + 1
                       ELSE CHOOSE i \in found : \A j \in found : i <= j
    IN  SubSeq(withoutDragged, 1, insertIndex - 1) \o <<draggedClip>>
          \o SubSeq(withoutDragged, insertIndex, Len(withoutDragged))

\* handleLabelSave: the label of one clip replaced.
RelabelledClips(clips, clipId, editLabel) ==
    [i \in 1..Len(clips) |->
        IF clips[i].id = clipId THEN [clips[i] EXCEPT !.label = editLabel]
        ELSE clips[i]]

\* handleDelete: the clip is marked, not removed.
SoftDeletedClips(clips, clipId) ==
    [i \in 1..Len(clips) |->
        IF clips[i].id = clipId THEN [clips[i] EXCEPT !.deleted = TRUE]
        ELSE clips[i]]

\* The ids of the entries of a timeline.
EntryIdsOf(entries) == {entries[i].id : i \in 1..Len(entries)}

\* saveTimeline: the timeline is read, its entries replaced by the list of
\* the component, and written back.
saveTimeline(file, updatedClips) == [file EXCEPT !.entries = updatedClips]

\* The ids of the clips the component renders.
VisibleIds == {history.present[i].id : i \in {j \in 1..Len(history.present) :
                                                ~history.present[j].deleted}}

\* The list is rendered for a project once the load effect has run.
Rendered == clipsList.projectName /\ ~clipsList.effect

\* The coordinator appends the entry of a finished recording.
AppendEntry ==
    /\ Len(timelineFile.entries) < MaxClips
    /\ timelineFile' = [timelineFile EXCEPT
            !.entries = Append(@, NewEntry(Len(@) + 1))]
    /\ UNCHANGED <<mainVars, sampleState, history, clipsList>>

\* ProjectPanel hands the selected project to the component.
SelectProject ==
    /\ ~clipsList.projectName
    /\ ~clipsList.effect
    /\ clipsList' = [clipsList EXCEPT !.projectName = TRUE, !.effect = TRUE,
                                      !.last = "select"]
    /\ UNCHANGED <<mainVars, sampleState, history, timelineFile>>

\* The load effect without a project: setClips([]).
EffectNoProject ==
    /\ clipsList.effect
    /\ ~clipsList.projectName
    /\ history' = setState(history, << >>, TRUE)
    /\ clipsList' = [clipsList EXCEPT !.effect = FALSE, !.last = "effect"]
    /\ UNCHANGED <<mainVars, sampleState, timelineFile>>

\* The load effect with a project: loadClips, which may fail.
loadClips ==
    /\ clipsList.effect
    /\ clipsList.projectName
    /\ \E ok \in BOOLEAN :
        history' = setState(history,
                            IF ok THEN LoadedClips(timelineFile.entries)
                            ELSE << >>,
                            FALSE)
    /\ clipsList' = [clipsList EXCEPT !.effect = FALSE, !.last = "load"]
    /\ UNCHANGED <<mainVars, sampleState, timelineFile>>

\* The application is started again: the component mounts anew.
Remount ==
    /\ Rendered
    /\ history' = NoHistory
    /\ clipsList' = [MountedClipsList EXCEPT !.edits = clipsList.edits]
    /\ UNCHANGED <<mainVars, sampleState, timelineFile>>

\* Command+Arrow on a clip: handleKeyDown and moveClip.
moveClip ==
    /\ Rendered
    /\ clipsList.edits < MaxEdits
    /\ \E clipId \in VisibleIds, direction \in {"up", "down"} :
        LET visible == visibleClips(history.present)
            currentIndex == IndexOf(visible, clipId)
            newClips == MovedClips(history.present, clipId, direction)
        IN  /\ IF direction = "down" THEN currentIndex < Len(visible)
                                     ELSE currentIndex > 1
            /\ newClips # history.present
            /\ history' = setState(history, newClips, TRUE)
            /\ timelineFile' = saveTimeline(timelineFile, newClips)
    /\ clipsList' = [clipsList EXCEPT !.edits = @ + 1, !.last = "reorder"]
    /\ UNCHANGED <<mainVars, sampleState>>

\* A drag that ends over another clip: handleMouseUp.
handleMouseUp ==
    /\ Rendered
    /\ clipsList.edits < MaxEdits
    /\ \E draggedId \in VisibleIds, targetId \in VisibleIds :
        LET dropPos == IndexOf(visibleClips(history.present), targetId) - 1
            newClips == DroppedClips(history.present, draggedId, dropPos)
        IN  /\ draggedId # targetId
            /\ history' = setState(history, newClips, TRUE)
            /\ timelineFile' = saveTimeline(timelineFile, newClips)
    /\ clipsList' = [clipsList EXCEPT !.edits = @ + 1, !.last = "reorder"]
    /\ UNCHANGED <<mainVars, sampleState>>

\* Enter or blur in the label input: handleLabelSave.
handleLabelSave ==
    /\ Rendered
    /\ clipsList.edits < MaxEdits
    /\ \E clipId \in VisibleIds, editLabel \in EditLabels :
        LET updatedClips == RelabelledClips(history.present, clipId, editLabel)
        IN  /\ history' = setState(history, updatedClips, TRUE)
            /\ timelineFile' = saveTimeline(timelineFile, updatedClips)
    /\ clipsList' = [clipsList EXCEPT !.edits = @ + 1, !.last = "label"]
    /\ UNCHANGED <<mainVars, sampleState>>

\* The delete button or key, confirmed: handleDelete.
handleDelete ==
    /\ Rendered
    /\ clipsList.edits < MaxEdits
    /\ \E clipId \in VisibleIds :
        LET updatedClips == SoftDeletedClips(history.present, clipId)
        IN  /\ history' = setState(history, updatedClips, TRUE)
            /\ timelineFile' = saveTimeline(timelineFile, updatedClips)
    /\ clipsList' = [clipsList EXCEPT !.edits = @ + 1, !.last = "delete"]
    /\ UNCHANGED <<mainVars, sampleState>>

\* The undo button or Cmd+Z. The button is disabled without a past; the
\* shortcut calls undo whatever the stacks hold.
UndoPressed ==
    /\ history' = undo(history)
    /\ clipsList' = [clipsList EXCEPT !.last = "undo"]
    /\ UNCHANGED <<mainVars, sampleState, timelineFile>>

\* The redo button, Cmd+Shift+Z or Cmd+Y. The button is disabled without a
\* future; the shortcuts call redo whatever the stacks hold.
RedoPressed ==
    /\ history' = redo(history)
    /\ clipsList' = [clipsList EXCEPT !.last = "redo"]
    /\ UNCHANGED <<mainVars, sampleState, timelineFile>>

NextClips ==
    \/ AppendEntry
    \/ SelectProject
    \/ EffectNoProject
    \/ loadClips
    \/ Remount
    \/ moveClip
    \/ handleMouseUp
    \/ handleLabelSave
    \/ handleDelete
    \/ UndoPressed
    \/ RedoPressed

SpecClips == Init /\ [][NextClips]_vars

\* --------------------------------------------- the timeline file alone
\* The writes of the Timeline Store step by step: the document is serialized
\* to a temporary file in the directory of timeline.json and then renamed
\* over it. The writers are save_project_timeline, which saveTimeline of the
\* clips list invokes after get_project_timeline, and the append of the
\* coordinator; the reader is get_project_timeline.
Writers == {"ui", "coordinator"}

\* Any number of writers at once.
WriterFreeAlways(writers) == TRUE
\* Only one writer at a time.
WriterFree(writers) == writers = {}

\* A write that serializes straight into timeline.json.
DuringWriteInPlace(file, data) ==
    [file EXCEPT !.entries = data, !.complete = FALSE]
\* timeline.json while a writer serializes: the data goes to the temporary
\* file, the destination is not touched.
DuringWrite(file, data) == [file EXCEPT !.tmp = data]

\* A writer starts to serialize data.
BeginWrite(file, w, data) ==
    [DuringWrite(file, data) EXCEPT !.writers = @ \cup {w}]

\* get_project_timeline: the document in timeline.json as it is now.
GetProjectTimeline ==
    /\ clipsList' = [clipsList EXCEPT
            !.timeline = [read |-> TRUE,
                          entries |-> timelineFile.entries,
                          complete |-> timelineFile.complete],
            !.last = "get"]
    /\ clipsList'.timeline # clipsList.timeline
    /\ UNCHANGED <<mainVars, sampleState, history, timelineFile>>

\* save_project_timeline, invoked by saveTimeline with the timeline it read
\* and the entries replaced by an edited list (a label saved or a clip
\* soft-deleted).
SaveProjectTimeline ==
    /\ clipsList.timeline.read
    /\ clipsList.timeline.complete
    /\ clipsList.edits < MaxEdits
    /\ WriterFree(timelineFile.writers)
    /\ "ui" \notin timelineFile.writers
    /\ \E clipId \in EntryIdsOf(clipsList.timeline.entries) :
        \E updatedClips \in
            {RelabelledClips(clipsList.timeline.entries, clipId, l) : l \in EditLabels}
            \cup {SoftDeletedClips(clipsList.timeline.entries, clipId)} :
          timelineFile' = BeginWrite(timelineFile, "ui", updatedClips)
    /\ clipsList' = [clipsList EXCEPT !.edits = @ + 1, !.last = "save"]
    /\ UNCHANGED <<mainVars, sampleState, history>>

\* The coordinator starts to append the entry of a finished recording.
AppendToTimeline ==
    /\ Len(timelineFile.entries) < MaxClips
    /\ timelineFile.complete
    /\ WriterFree(timelineFile.writers)
    /\ "coordinator" \notin timelineFile.writers
    /\ timelineFile' = BeginWrite(timelineFile, "coordinator",
            Append(timelineFile.entries, NewEntry(Len(timelineFile.entries) + 1)))
    /\ UNCHANGED <<mainVars, sampleState, history, clipsList>>

\* The writer has serialized its document and renames the temporary file
\* over timeline.json.
RenameOverTimeline ==
    /\ \E w \in timelineFile.writers :
        timelineFile' = [timelineFile EXCEPT !.entries = timelineFile.tmp,
                                             !.complete = TRUE,
                                             !.tmp = << >>,
                                             !.writers = @ \ {w}]
    /\ UNCHANGED <<mainVars, sampleState, history, clipsList>>

NextStore ==
    \/ GetProjectTimeline
    \/ SaveProjectTimeline
    \/ AppendToTimeline
    \/ RenameOverTimeline

SpecStore == Init /\ [][NextStore]_vars

\* ------------------------------------------------------ reconcile alone
\* The project directory as a set of MP4 files, each with its content
\* checksum, and the timeline reconciled against it. Files are added, renamed
\* and removed from outside; labels are edited; reconcile_project_timeline
\* runs at any time in between.
DirNames == 1..MaxDirNames
Checksums == 1..MaxChecksums
\* No file of that name in the directory.
NoFile == 0

\* The entry a promoted orphan gets: a fresh id, no label, the duration of
\* the content.
PromotedEntry(n, name, c) ==
    [id |-> n, filename |-> name, checksum |-> c, label |-> "",
     duration_ms |-> c * 1000, deleted |-> FALSE]

\* A reconcile that never matches by filename.
MatchedByFilenameNever(entries, name) == FALSE
\* Step 2, first half: some entry carries the name of the file.
MatchedByFilename(entries, name) ==
    \E i \in 1..Len(entries) : entries[i].filename = name

\* A reconcile that never matches by checksum.
MissingWithChecksumNone(entries, dir, c) == {}
\* Step 2, second half: the entries whose file is missing and whose checksum
\* is that of the file.
MissingWithChecksum(entries, dir, c) ==
    {i \in 1..Len(entries) :
        /\ dir[entries[i].filename] = NoFile
        /\ entries[i].checksum = c}

\* Steps 2 to 4 for the files named name and above, in the order of their
\* names: a file without an entry of its name is attached to the first entry
\* that misses its file and has its checksum, or becomes a new entry; entries
\* without a file stay.
RECURSIVE ReconcileFrom(_, _, _)
ReconcileFrom(entries, dir, name) ==
    IF name > MaxDirNames THEN entries
    ELSE IF dir[name] = NoFile \/ MatchedByFilename(entries, name)
    THEN ReconcileFrom(entries, dir, name + 1)
    ELSE LET missing == MissingWithChecksum(entries, dir, dir[name])
         IN  IF missing # {}
             THEN LET i == CHOOSE j \in missing : \A k \in missing : j <= k
                  IN  ReconcileFrom([entries EXCEPT ![i].filename = name],
                                    dir, name + 1)
             ELSE ReconcileFrom(
                    Append(entries,
                           PromotedEntry(Len(entries) + 1, name, dir[name])),
                    dir, name + 1)

\* reconcile_project_timeline with the entries as sequence and checksums:
\* the reconciled entries.
reconcile_project_timeline(entries, dir) ==
    ReconcileFrom(entries, dir, 1)
\* Step 5: the count of newly promoted entries.
PromotedCount(entries, dir) == Len(reconcile_project_timeline(entries, dir)) - Len(entries)

InitReconcile ==
    /\ IS_RECORDING = FALSE
    /\ enabled = TRUE
    /\ current_project = TRUE
    /\ preInitState = "NotInitialized"
    /\ capturer = 0
    /\ preInitOps = NoOps
    /\ sessions = << >>
    /\ recs = << >>
    /\ active = 0
    /\ files = [n \in DirNames |-> NoFile]
    /\ timeline = [f \in FileIds |-> 0]
    /\ queue = << >>
    /\ status = "idle"
    /\ fsPending = FALSE
    /\ nFaults = 0
    /\ nHotkey = 0
    /\ lastKey = "none"
    /\ sampleState = NoSamples
    /\ history = NoHistory
    /\ clipsList = MountedClipsList
    /\ timelineFile = EmptyTimelineFile

reconcileVars == <<IS_RECORDING, enabled, current_project, preInitState,
                   capturer, preInitOps, sessions, recs, active, timeline,
                   queue, status, fsPending, nFaults, nHotkey, lastKey,
                   sampleState, history>>

\* A finished recording or a file dropped into the directory.
FileAdded ==
    /\ \E name \in DirNames, c \in Checksums :
        /\ files[name] = NoFile
        /\ files' = [files EXCEPT ![name] = c]
    /\ clipsList' = [clipsList EXCEPT !.last = "added"]
    /\ UNCHANGED <<reconcileVars, timelineFile>>

\* The user renames a file to a name that is free in the directory.
FileRenamed ==
    /\ \E name \in DirNames, newName \in DirNames :
        /\ files[name] # NoFile
        /\ files[newName] = NoFile
        /\ files' = [files EXCEPT ![name] = NoFile, ![newName] = files[name]]
    /\ clipsList' = [clipsList EXCEPT !.last = "renamed"]
    /\ UNCHANGED <<reconcileVars, timelineFile>>

\* The user removes a file.
FileRemoved ==
    /\ \E name \in DirNames :
        /\ files[name] # NoFile
        /\ files' = [files EXCEPT ![name] = NoFile]
    /\ clipsList' = [clipsList EXCEPT !.last = "removed"]
    /\ UNCHANGED <<reconcileVars, timelineFile>>

\* The user gives an entry a label.
EntryLabelled ==
    /\ \E i \in 1..Len(timelineFile.entries), l \in EditLabels :
        /\ timelineFile.entries[i].label # l
        /\ timelineFile' = [timelineFile EXCEPT !.entries[i].label = l]
    /\ clipsList' = [clipsList EXCEPT !.last = "label"]
    /\ UNCHANGED <<reconcileVars, files>>

\* handleRefresh and handleProjectSelect: reconcile_project_timeline.
ReconcileTimeline ==
    /\ timelineFile' = [timelineFile EXCEPT
            !.entries = reconcile_project_timeline(timelineFile.entries, files)]
    /\ clipsList' = [clipsList EXCEPT !.last = "reconcile"]
    /\ UNCHANGED <<reconcileVars, files>>

NextReconcile ==
    \/ FileAdded
    \/ FileRenamed
    \/ FileRemoved
    \/ EntryLabelled
    \/ ReconcileTimeline

SpecReconcile == InitReconcile /\ [][NextReconcile]_vars

\* ------------------------------------------------------ shape of the state
Recs == 1..Len(recs)
Sessions == 1..Len(sessions)

TypeOK ==
    /\ IS_RECORDING \in BOOLEAN /\ enabled \in BOOLEAN
    /\ current_project \in BOOLEAN /\ fsPending \in BOOLEAN
    /\ preInitState \in {"NotInitialized", "Initializing", "Ready", "ShuttingDown"}
    /\ capturer \in 0..1
    /\ preInitOps.init \in 0..1 /\ preInitOps.shutdown \in 0..1
    /\ preInitOps.queued \in BOOLEAN
    /\ preInitOps.cfg \in 0..MaxConfigChanges
    /\ preInitOps.building \in 0..preInitOps.cfg
    /\ preInitOps.held \in 0..preInitOps.cfg
    /\ preInitOps.need \in 0..preInitOps.cfg
    /\ capturer_ready(capturer) <=> preInitState = "Ready"
    /\ active \in 0..Len(recs)
    /\ IS_RECORDING => active # 0
    /\ \A r \in Recs : recs[r].session \in 0..Len(sessions)
    /\ \A f \in FileIds : files[f] \in {"absent", "partial", "complete"}
    /\ status \in {"idle", "recording", "saving", "error"}
    /\ nFaults \in 0..MaxFaults /\ nHotkey \in 0..MaxHotkeyEvents

\* ------------------------------------------------------------------ claims
\* Vocabulary shared by the properties below.
StatusEvents == {"recording", "idle", "saving", "clip-saved"}
IsStatusEvent(t) == t \in StatusEvents
StatusTrace(r) == SelectSeq(recs[r].evs, IsStatusEvent)
FullTrace == <<"recording", "idle", "clip-saved">>
IsPrefix(s, t) == Len(s) <= Len(t) /\ s = SubSeq(t, 1, Len(s))

RecordingSessions == {s \in Sessions : sessions[s].st = "Recording"}
Released(r) == recs[r].stopPc # "none"
Completed(r) == recs[r].stopPc \in {"saved", "done"}
Errored(r) == \E i \in 1..Len(recs[r].evs) : recs[r].evs[i] = "recording-error"
StartDone(r) == recs[r].startPc \in {"dropped", "ok", "failed"}
StopDone(r) == recs[r].stopPc \in {"none", "done", "failed"}
\* No hotkey is held and no thread of any recording is still running.
Quiescent == ~IS_RECORDING /\ \A r \in Recs : StartDone(r) /\ StopDone(r)
HotkeyStep == nHotkey' = nHotkey + 1
EmitsFsChanged ==
    /\ Len(queue') = Len(queue) + 1
    /\ queue'[Len(queue')].type = "filesystem-changed"
\* Recording r was started by its press and its clip-saved (or its error) has
\* not been emitted yet.
InProgress(r) ==
    /\ recs[r].startPc \in {"spawned", "inflight", "ok"}
    /\ recs[r].stopPc \in {"none", "spawned", "stopping", "stopped"}

\* C1: at every instant at most one capture session is in state Recording.
C1_AtMostOneRecording == Cardinality(RecordingSessions) <= 1

C3_RapidRepress ==
    [][ /\ (HotkeyStep /\ lastKey' \in {"press", "press-dropped"}
              /\ ~IS_RECORDING /\ current_project
              /\ \E r \in Recs : recs[r].stopPc \in {"spawned", "stopping", "stopped"})
           => (IS_RECORDING' /\ Len(recs') = Len(recs) + 1
                 /\ recs'[Len(recs')].startPc = "spawned"
                 /\ queue'[Len(queue')].type = "recording")
        /\ (queue # << >> /\ queue' = Tail(queue)
              /\ Head(queue).type = "clip-saved")
           => status' = status ]_vars

\* C3 witness: the clip-saved of the earlier recording is about to be handled
\* while the status already shows the next recording.
C3_Witness ==
    /\ queue # << >> /\ Head(queue).type = "clip-saved"
    /\ status = "recording" /\ IS_RECORDING
    /\ active > Head(queue).rec

\* C4: a release that arrives while the start is in flight is not lost: once
\* the start has completed and the release's thread has made its stop call,
\* the session is stopping or stopped.
C4_ReleaseNotLost ==
    \A r \in Recs :
        (recs[r].startPc = "ok" /\ recs[r].stopPc \notin {"none", "spawned"})
            => sessions[recs[r].session].st
                  \in {"Stopping", "Finalized", "WriterFailed"}

\* C5: a press while IS_RECORDING is true, and a release while it is false,
\* changes nothing: no state, no recording, no event; so at most one started
\* recording waits for its release, however many presses came.
C5_FailedCasDropped ==
  /\ [](Cardinality({r \in Recs : recs[r].startPc # "dropped" /\ ~Released(r)})
          <= 1)
  /\
    [][ /\ (HotkeyStep /\ lastKey' \in {"press", "press-dropped"} /\ IS_RECORDING)
           => UNCHANGED <<coordVars, status, fsPending, otherVars>>
        /\ (HotkeyStep /\ lastKey' \in {"release", "release-dropped"}
              /\ ~IS_RECORDING)
           => UNCHANGED <<coordVars, status, fsPending, otherVars>> ]_vars

\* C5 witness: three hotkey callbacks, the last one a press that was dropped
\* while the one recording made so far is running.
C5_Witness ==
    /\ nHotkey = 3 /\ lastKey = "press-dropped" /\ IS_RECORDING
    /\ Len(recs) = 1 /\ recs[1].startPc = "ok" /\ ~Released(1)

C7_WatcherDisabledWhileRecording ==
    \A s \in Sessions : sessions[s].st \in {"Recording", "Stopping"} => ~enabled

\* C8: no filesystem-changed event is emitted between a press and the
\* clip-saved of the recording that press started.
C8_NoFsEventBeforeClipSaved ==
    [][ EmitsFsChanged => \A r \in Recs : ~InProgress(r) ]_vars

\* C9: once the coordinator is idle again the watcher is not left paused.
C9_WatcherResumedWhenIdle == Quiescent => enabled

\* C10: the timeline holds at most one entry per file, so each completed
\* recording has exactly one.
C10_OneEntryPerRecording ==
    /\ \A f \in FileIds : timeline[f] <= 1
    /\ \A r \in Recs : recs[r].stopPc = "done" => timeline[recs[r].path] = 1

\* C11: no two recordings whose start is under way or done were given the
\* same output file, and a recording never starts writing a file that is
\* already there.
C11_UniqueOutputPaths ==
    \A a, b \in Recs :
        (a # b /\ recs[a].startPc \in {"spawned", "inflight", "ok"}
               /\ recs[b].startPc \in {"spawned", "inflight", "ok"})
            => recs[a].path # recs[b].path

\* C12: the path a recording resolves is recording-(M+1).mp4, M the largest
\* N among the recording-N.mp4 present (0 if none).
C12_NextIsMaxPlusOne ==
    [][ Len(recs') = Len(recs) + 1
          => recs'[Len(recs')].path = get_next_recording_number(files) ]_vars

CycleSteps ==
    {<<"NotInitialized", "Initializing">>, <<"Initializing", "Ready">>,
     <<"Ready", "ShuttingDown">>, <<"ShuttingDown", "NotInitialized">>}

RebuildPending == preInitState = "ShuttingDown" /\ preInitOps.queued

\* The manager holds a capturer built from a configuration at least as new
\* as the last change that invalidated a held one.
Rebuilt ==
    /\ preInitState = "Ready" /\ capturer = 1
    /\ preInitOps.held >= preInitOps.need

SessionRank(st) ==
    CASE st = "Created" -> 0
      [] st \in {"PreInitialized", "Starting", "StartFailed"} -> 1
      [] st = "Recording" -> 2
      [] st = "Stopping" -> 3
      [] st \in {"Finalized", "WriterFailed"} -> 4

Appended == 1..Len(sampleState.out)
FirstTimes ==
    (IF sampleState.hasFirstAudio THEN {sampleState.firstAudioTime} ELSE {})
    \cup (IF sampleState.hasFirstFrame THEN {sampleState.firstFrameTime} ELSE {})
\* The native timestamp of the first sample to arrive on either track.
time_origin == CHOOSE t \in FirstTimes : \A u \in FirstTimes : t <= u

\* C23: within a session there is one time_origin, the native timestamp of
\* the first sample to arrive on either track, and every appended sample of
\* the audio and of the video track carries native_ts - time_origin.
C23_SingleTimeOrigin ==
    \A i \in Appended :
        sampleState.out[i].ts = sampleState.out[i].native - time_origin

\* C23, per track: each track is rebased against the first sample of its own.
C23_OriginPerTrack ==
    \A i \in Appended :
        sampleState.out[i].ts = sampleState.out[i].native
            - (IF sampleState.out[i].track = "audio"
               THEN sampleState.firstAudioTime ELSE sampleState.firstFrameTime)

\* C23: both tracks have delivered, their first samples at different times.
C23_Witness ==
    /\ sampleState.hasFirstAudio /\ sampleState.hasFirstFrame
    /\ sampleState.firstAudioTime # sampleState.firstFrameTime
    /\ \E i, j \in Appended :
        /\ sampleState.out[i].track = "audio"
        /\ sampleState.out[j].track = "video"

\* ---- C24
\* C24: undo and redo are inverse to each other: wherever an undo is possible,
\* redoing it gives back the same history and the same timeline state, and
\* wherever a redo is possible, undoing it does; in particular right after a
\* single user mutation.
C24_UndoRedoInverse ==
    /\ canUndo(history) =>
        /\ canRedo(undo(history))
        /\ redo(undo(history)) = history
    /\ canRedo(history) =>
        /\ canUndo(redo(history))
        /\ undo(redo(history)) = history

\* C24: an undone mutation with an earlier one still behind it; the states
\* on both sides differ from the one shown.
C24_Witness ==
    /\ clipsList.last = "undo"
    /\ canUndo(history) /\ canRedo(history)
    /\ history.present # history.future[1]
    /\ history.present # history.past[Len(history.past)]

\* ---- C25
\* A step of one of the handlers of a user mutation: reorder (moveClip,
\* handleMouseUp), label edit (handleLabelSave), soft delete (handleDelete).
UserMutationStep == clipsList'.edits = clipsList.edits + 1

\* C25: every reorder, label edit and soft delete pushes the state it found
\* onto the past stack, right behind what was there, and clears the future
\* stack.
C25_MutationPushesHistory ==
    [][UserMutationStep =>
        /\ clipsList'.last \in {"reorder", "label", "delete"}
        /\ Len(history'.past) > 0
        /\ history'.past[Len(history'.past)] = history.present
        /\ Len(history.past) < maxHistorySize =>
              history'.past = Append(history.past, history.present)
        /\ history'.future = << >>
      ]_vars

\* C25: a soft delete has just run; the state before it, with the clip still
\* there, is on top of the past stack behind an earlier state.
C25_Witness ==
    /\ clipsList.last = "delete"
    /\ Len(history.past) >= 2
    /\ history.future = << >>
    /\ \E i \in 1..Len(history.present) :
        /\ history.present[i].deleted
        /\ ~history.past[Len(history.past)][i].deleted

\* ---- C26
\* C26: the past stack never holds more than maxHistorySize states, whatever
\* the mutations, undos and redos; a mutation that finds it full discards the
\* oldest state and keeps the rest in order.
C26_HistoryBounded ==
    /\ [](Len(history.past) <= maxHistorySize)
    /\ [][(UserMutationStep /\ Len(history.past) = maxHistorySize) =>
            history'.past = Append(Tail(history.past), history.present)]_vars

\* C26: the stack is full after a mutation and the first checkpoint of the
\* component (the empty list of the mount) is gone from its bottom.
C26_Witness ==
    /\ clipsList.last \in {"reorder", "label", "delete"}
    /\ Len(history.past) = maxHistorySize
    /\ history.past[1] # << >>

\* ---- C27
\* A run of the load effect of the component, and a change of timeline.json
\* that does not come from the component.
LoadEffectStep == clipsList.effect /\ ~clipsList'.effect
ExternalStep == timelineFile' # timelineFile /\ clipsList' = clipsList

C27_LoadClipsKeepsHistory ==
    [][((LoadEffectStep /\ clipsList.projectName) \/ ExternalStep) =>
        /\ history'.past = history.past
        /\ history'.future = history.future]_vars

\* C27: the timeline of the project has been loaded into a component whose
\* past stack already holds a state, without any user mutation so far.
C27_Witness ==
    /\ clipsList.last = "load"
    /\ clipsList.edits = 0
    /\ Len(history.present) > 0
    /\ canUndo(history)

\* ---- C28
\* A step of the undo or redo button or shortcut.
UndoRedoStep == history' # history /\ clipsList'.last \in {"undo", "redo"}

\* C28: after an undo or a redo the restored state has been written back:
\* the entries of timeline.json are the list the component shows.
C28_UndoRedoPersisted ==
    [][UndoRedoStep => timelineFile'.entries = history'.present]_vars

\* C28, for the mutations themselves: after a reorder, a label edit or a soft
\* delete the entries of timeline.json are the list of the component.
C28_MutationPersisted ==
    [][UserMutationStep => timelineFile'.entries = history'.present]_vars

\* C28: an undo has brought back a state that differs from what is on disk.
C28_Witness ==
    /\ clipsList.last = "undo"
    /\ clipsList.edits > 0
    /\ Len(history.present) > 0
    /\ timelineFile.entries # history.present

\* ---- C29
\* The ids of the soft-deleted entries of a timeline.
DeletedIds(entries) ==
    {entries[i].id : i \in {j \in 1..Len(entries) : entries[j].deleted}}

\* C29: a reorder or a label edit rewrites timeline.json without removing a
\* soft-deleted entry: every entry that was in the file as deleted is still
\* in the file.
C29_SoftDeletedKept ==
    [][(UserMutationStep /\ clipsList'.last \in {"reorder", "label"}) =>
        DeletedIds(timelineFile.entries) \subseteq EntryIdsOf(timelineFile'.entries)
      ]_vars

\* C29, for the list in the component: a reorder or a label edit saves every
\* entry of the list it started from, the soft-deleted ones as deleted.
C29_SoftDeletedKeptInList ==
    [][(UserMutationStep /\ clipsList'.last \in {"reorder", "label"}) =>
        /\ EntryIdsOf(history.present) = EntryIdsOf(timelineFile'.entries)
        /\ DeletedIds(history.present) = DeletedIds(timelineFile'.entries)
      ]_vars

ReconciledOnce == reconcile_project_timeline(timelineFile.entries, files)

\* C31: reconcile is idempotent: for every timeline and directory the second
\* of two reconciles in a row promotes no entry and changes none.
C31_ReconcileIdempotent ==
    /\ reconcile_project_timeline(ReconciledOnce, files) = ReconciledOnce
    /\ PromotedCount(ReconciledOnce, files) = 0

\* C31: a reconcile has just run on a directory with two files and left two
\* entries, one of them labelled.
C31_Witness ==
    /\ clipsList.last = "reconcile"
    /\ Len(timelineFile.entries) >= 2
    /\ \A name \in DirNames : files[name] # NoFile
    /\ \E i \in 1..Len(timelineFile.entries) :
        timelineFile.entries[i].label # ""

\* ---- C32
\* A step that renames the file oldName to newName.
RenameStep(oldName, newName) ==
    /\ files[oldName] # NoFile /\ files'[oldName] = NoFile
    /\ files[newName] = NoFile /\ files'[newName] = files[oldName]
    /\ timelineFile' = timelineFile

\* Entry i is the entry of the recorded file name: it carries its name and
\* its checksum.
EntryOf(i, name) ==
    /\ timelineFile.entries[i].filename = name
    /\ timelineFile.entries[i].checksum = files[name]

\* Reconciling after the rename attaches entry i to newName, keeps its id,
\* label and duration_ms, and creates no entry for newName.
Reattached(i, newName) ==
    LET before == timelineFile.entries
        after == reconcile_project_timeline(before, files')
    IN  /\ after[i].filename = newName
        /\ after[i].id = before[i].id
        /\ after[i].label = before[i].label
        /\ after[i].duration_ms = before[i].duration_ms
        /\ \A k \in 1..Len(after) : after[k].filename = newName => k = i

OnlyMatch(i, newName) ==
    /\ \A name \in DirNames :
        (/\ files'[name] = timelineFile.entries[i].checksum
         /\ \A j \in 1..Len(timelineFile.entries) :
                timelineFile.entries[j].filename # name) => name = newName
    /\ \A j \in 1..Len(timelineFile.entries) :
        (/\ files'[timelineFile.entries[j].filename] = NoFile
         /\ timelineFile.entries[j].checksum = timelineFile.entries[i].checksum)
          => j = i

DeliveredAfterStart ==
    /\ sampleState.phase \in {"starting", "recording"}
    /\ sampleState'.nSamples = sampleState.nSamples + 1

\* C33: start sets isRecording before it invokes stream.start, so no sample
\* delivered after stream.start was invoked finds the flag still clear and is
\* dropped for it.
C33_NoSampleDroppedAfterStart ==
    [][DeliveredAfterStart => sampleState.isRecording]_vars

\* C33, as a state predicate: once startCapture was invoked and until the
\* outcome of the start is known, isRecording is set.
C33_FlagSetBeforeStreamStart ==
    sampleState.phase = "starting" => sampleState.isRecording

\* ---- C34
\* C34: when the rebased copy of the first video sample cannot be created,
\* the sample is dropped and the first-frame flag is armed again, so the next
\* video sample becomes the timestamp reference: the first video sample that
\* is appended carries the timestamp zero, being its own reference.
C34_FirstAppendedVideoAtZero ==
    \A i \in Appended :
        (/\ sampleState.out[i].track = "video"
         /\ \A j \in 1..(i - 1) : sampleState.out[j].track # "video")
        => sampleState.out[i].ts = 0

\* ---- C35
\* markAsFinished was called on the writer inputs.
MarkedAsFinished == sampleState.phase \in {"finishing", "done"}

\* A sample was appended to a writer input.
SampleAppended == Len(sampleState'.out) = Len(sampleState.out) + 1

\* C35: no sample is appended to a writer input after the input was marked
\* as finished; a callback that runs while stop runs does not append between
\* markAsFinished and the clearing of isRecording.
C35_NoAppendAfterFinished ==
    [][SampleAppended => ~MarkedAsFinished]_vars

\* C35, for callbacks that begin after markAsFinished: they find the input
\* not ready and put no sample on its way to the input.
C35_NoNewSampleAfterFinished ==
    [][MarkedAsFinished => sampleState'.flight \subseteq sampleState.flight]_vars

\* ---- C36
\* The last press emitted recording and produced no recording, with the
\* given outcome, and the webview has handled every event emitted so far.
PressCameToNothing(outcomes) ==
    /\ recs # << >>
    /\ recs[Len(recs)].startPc \in outcomes
    /\ queue = << >>

\* C36: the status shown is never left at recording while no recording is in
\* progress: after a press that emitted recording and then produced no
\* recording (no project set, or session.start failed) the status becomes
\* another one.
C36_StatusLeavesRecording ==
    PressCameToNothing({"dropped", "failed"}) => status # "recording"

\* C36, for the failed start alone: recording-error follows recording.
C36_StartFailureLeavesRecording ==
    PressCameToNothing({"failed"}) => status # "recording"

\* ---- C37
\* The webview handles a recording-error that the background finalization of
\* an earlier recording emitted, while a later recording is in progress and
\* the status shows recording.
LateFinalizeErrorHandled ==
    /\ queue # << >>
    /\ queue' = Tail(queue)
    /\ Head(queue).type = "recording-error"
    /\ recs[Head(queue).rec].stopPc = "failed"
    /\ active > Head(queue).rec
    /\ status = "recording"

\* C37: a recording-error raised by the background finalization of an
\* earlier recording never replaces the recording status of a later recording
\* that is in progress.
C37_LateErrorKeepsRecording ==
    [][LateFinalizeErrorHandled => status' = "recording"]_vars

\* ---- C38
\* The ids of the entries that are not soft-deleted.
LiveIds(entries) ==
    {entries[i].id : i \in {j \in 1..Len(entries) : ~entries[j].deleted}}

\* The entries the coordinator appended after the component read the list.
AppendedAfterRead ==
    LiveIds(timelineFile.entries) \ EntryIdsOf(history.present)

\* C38: an entry the coordinator appended for a finished recording is never
\* lost through a save of the clips list (reorder, label edit, soft delete)
\* that writes back a list of entries read before the append.
C38_AppendedEntryKept ==
    [][UserMutationStep =>
        AppendedAfterRead \subseteq EntryIdsOf(timelineFile'.entries)]_vars

\* ------------------------------------------- the capturer slot as written
\* AppState.capturer under the handlers that the repository shows: the slot
\* holds the capturer itself, `capturer` is here the index of the held
\* capturer in `sessions` (0 for None) and `active` the capturer the running
\* recording was started on. Events reach the status chip at once.
MaxSlotBuilds == 3

\* A capturer that leaves the slot by being overwritten or shut down is
\* dropped, whatever it was doing.
DroppedFromSlot(ss, c) ==
    IF c = 0 THEN ss
    ELSE [ss EXCEPT ![c] = [st |-> "Dropped", isRecording |-> FALSE]]

\* What handleClick of the status chip sees of the manager.
SlotStatus(c) == IF c = 0 THEN "NotInitialized" ELSE "Ready"

slotRest == <<enabled, preInitState, recs, files, timeline, queue, fsPending,
              nFaults, otherVars>>

\* set_current_project: the project is set, a capturer built and stored;
\* pre_initialize may fail, and then nothing is stored.
set_current_project ==
    /\ ~current_project
    /\ current_project' = TRUE
    /\ \E ok \in BOOLEAN :
          IF ok
          THEN /\ sessions' = Append(DroppedFromSlot(sessions, capturer),
                                     NewSession)
               /\ capturer' = Len(sessions) + 1
          ELSE UNCHANGED <<sessions, capturer>>
    /\ lastKey' = "project"
    /\ UNCHANGED <<IS_RECORDING, active, status, nHotkey, preInitOps, slotRest>>

\* Pressed. Fast path: the capturer is taken out of the slot, start_recording
\* runs on it, and it is stored back; when the start fails the handler
\* returns with the capturer taken. Slow path: a capturer is built on demand
\* (that code is left out in the source; it is not stored here).
SlotPressed ==
    /\ nHotkey < MaxHotkeyEvents
    /\ nHotkey' = nHotkey + 1
    /\ PressAccepted(IS_RECORDING)
    /\ ProjectResolved(current_project)
    /\ IS_RECORDING' = TRUE
    /\ lastKey' = "press"
    /\ IF capturer_ready(capturer)
       THEN \E ok \in BOOLEAN :
              IF ok /\ sessions[capturer].st = "PreInitialized"
              THEN /\ sessions' = [sessions EXCEPT ![capturer] =
                          [st |-> "Recording",
                           isRecording |-> StartCompletionFlag]]
                   /\ active' = capturer
                   /\ status' = "recording"
                   /\ UNCHANGED capturer
              ELSE /\ sessions' = DroppedFromSlot(sessions, capturer)
                   /\ capturer' = 0
                   /\ active' = 0
                   /\ status' = StatusOnError("recording")
       ELSE /\ Len(sessions) < MaxSlotBuilds
            /\ sessions' = Append(sessions,
                  [OnDemandSession EXCEPT !.st = "Recording",
                                          !.isRecording = StartCompletionFlag])
            /\ active' = Len(sessions) + 1
            /\ status' = "recording"
            /\ UNCHANGED capturer
    /\ UNCHANGED <<current_project, preInitOps, slotRest>>

\* Released: idle is emitted at once and the recording stopped on a
\* background thread.
SlotReleased ==
    /\ nHotkey < MaxHotkeyEvents
    /\ nHotkey' = nHotkey + 1
    /\ ReleaseAccepted(IS_RECORDING)
    /\ IS_RECORDING' = FALSE
    /\ status' = ReleaseStatus
    /\ lastKey' = "release"
    /\ sessions' = IF active # 0 /\ StopGuard(sessions[active])
                   THEN [sessions EXCEPT ![active].st = "Stopping"]
                   ELSE sessions
    /\ active' = 0
    /\ UNCHANGED <<current_project, capturer, preInitOps, slotRest>>

\* The background thread: stop returns, the file is finalized.
FinalizeStopped ==
    /\ \E s \in 1..Len(sessions) :
          /\ sessions[s].st = "Stopping"
          /\ sessions' = [sessions EXCEPT ![s] =
                             [st |-> "Finalized", isRecording |-> FALSE]]
    /\ lastKey' = "finalize"
    /\ UNCHANGED <<IS_RECORDING, current_project, capturer, active, status,
                   nHotkey, preInitOps, slotRest>>

\* reinitialize_capturer_if_needed, called by set_mic_enabled,
\* set_capture_region and clear_capture_region: with a project, a capturer is
\* built and stored over whatever the slot held.
reinitialize_capturer_if_needed ==
    /\ preInitOps.cfg < MaxConfigChanges
    /\ preInitOps' = [preInitOps EXCEPT !.cfg = @ + 1]
    /\ lastKey' = "reinitialize"
    /\ IF current_project
       THEN \E ok \in BOOLEAN :
              IF ok /\ Len(sessions) < MaxSlotBuilds
              THEN /\ sessions' = Append(DroppedFromSlot(sessions, capturer),
                                         NewSession)
                   /\ capturer' = Len(sessions) + 1
              ELSE UNCHANGED <<sessions, capturer>>
       ELSE UNCHANGED <<sessions, capturer>>
    /\ UNCHANGED <<IS_RECORDING, current_project, active, status, nHotkey,
                   slotRest>>

\* A click on the status chip that handleClick lets through: toggle_pre_init
\* shuts the held capturer down, or builds one when none is held.
toggle_pre_init ==
    /\ ToggleAllowed(status, SlotStatus(capturer))
    /\ lastKey' = "toggle"
    /\ IF capturer_ready(capturer)
       THEN /\ sessions' = DroppedFromSlot(sessions, capturer)
            /\ capturer' = 0
       ELSE /\ current_project
            /\ Len(sessions) < MaxSlotBuilds
            /\ sessions' = Append(sessions, NewSession)
            /\ capturer' = Len(sessions) + 1
    /\ UNCHANGED <<IS_RECORDING, current_project, active, status, nHotkey,
                   preInitOps, slotRest>>

\* The idle timeout: the held capturer is shut down.
IdleTimeout ==
    /\ capturer_ready(capturer)
    /\ lastKey' = "idle-timeout"
    /\ sessions' = DroppedFromSlot(sessions, capturer)
    /\ capturer' = 0
    /\ UNCHANGED <<IS_RECORDING, current_project, active, status, nHotkey,
                   preInitOps, slotRest>>

NextSlot ==
    \/ set_current_project
    \/ SlotPressed
    \/ SlotReleased
    \/ FinalizeStopped
    \/ reinitialize_capturer_if_needed
    \/ toggle_pre_init
    \/ IdleTimeout

SpecSlot == Init /\ [][NextSlot]_vars

\* ---- C39
\* A capture session in use: started and not yet finalized.
InUse(s) == s.st \in {"Recording", "Stopping"}

\* A session that was in use is torn down or replaced by this step.
TearsDownSessionInUse ==
    \E s \in 1..Len(sessions) :
        InUse(sessions[s]) /\ sessions'[s].st = "Dropped"

\* C39: an idle-timeout shutdown, a toggle or a configuration-change rebuild
\* never tears down or replaces a capture session that is Recording or
\* Stopping.
C39_SessionInUseKept ==
    [][lastKey' \in {"idle-timeout", "toggle", "reinitialize"}
        => ~TearsDownSessionInUse]_vars

\* C39, for the configuration-change rebuild alone.
C39_RebuildKeepsSessionInUse ==
    [][lastKey' = "reinitialize" => ~TearsDownSessionInUse]_vars

\* C39, for the toggle alone.
C39_ToggleKeepsSessionInUse ==
    [][lastKey' = "toggle" => ~TearsDownSessionInUse]_vars

\* C39: the session in use has been moved out of the slot of the manager.
C39_SessionInUseOutOfSlot ==
    capturer_ready(capturer) => ~InUse(sessions[capturer])

\* ---- C40
\* C40: a state update that is no checkpoint (the load of the clips) replaces
\* only the present state and leaves the past and the future stack as they
\* are; an undo with an empty past and a redo with an empty future leave the
\* whole history as it is.
C40_FrameEffects ==
    [][/\ clipsList'.last = "load" =>
            /\ history'.past = history.past
            /\ history'.future = history.future
       /\ (clipsList'.last = "undo" /\ ~canUndo(history)) => history' = history
       /\ (clipsList'.last = "redo" /\ ~canRedo(history)) => history' = history
      ]_vars

\* C40: a load has replaced the present state of a history that has a past.
C40_Witness ==
    /\ clipsList.last = "load"
    /\ history.past # << >>
    /\ history.present # << >>

\* C40: an undo was called on a history without a past (an undo that takes
\* effect leaves a future behind).
C40_UndoOnEmptyPast ==
    /\ clipsList.last = "undo"
    /\ history.past = << >> /\ history.future = << >>

\* C40: a redo was called on a history without a future (a redo that takes
\* effect leaves a past behind).
C40_RedoOnEmptyFuture ==
    /\ clipsList.last = "redo"
    /\ history.past = << >> /\ history.future = << >>

====
